---- MODULE Spec2Model ----
(***************************************************************************)
(* kibela_toc.py: table-of-contents generator for a Kibela note.           *)
(*                                                                         *)
(* A Python str is modelled as a sequence of characters, a character being *)
(* a one-character TLA+ string.  Three characters cannot be written in a   *)
(* TLA+ string and are named by code point, each name standing for ONE     *)
(* character: "U+76EE" and "U+6B21", the two CJK characters of the header  *)
(* generate_toc writes, and "U+0060", the backquote.  "\n" is the line     *)
(* separator                                                               *)
(* and "\t" a tab.  Line and list indices are 0-based as in the source;    *)
(* TLA+ sequences are 1-based, so lines[i] of the source is lines[i + 1].  *)
(***************************************************************************)
EXTENDS Integers, Sequences, FiniteSets, TLC

VARIABLES
    pc,                 \* position of the running call
    note,               \* the remote note's content (the server's copy)
    depth,              \* args.depth / max_depth
    dry_run,            \* args.dry_run
    original_content,   \* process_note: original_content
    headings,           \* process_note: headings
    toc,                \* process_note: toc
    new_content,        \* process_note: new_content
    fetched,            \* get_note_content has returned in this run
    update_calls,       \* the calls of update_note_content: <<[base, new]>>
    event,              \* what ended the run (the message printed)
    result,             \* process_note's return value: [success, message]
    exit_code,          \* sys.exit's argument, None while running
    text,               \* generate_anchor: its argument
    anchor,             \* generate_anchor: its return value
    toc_range,          \* find_existing_toc: its return value
    runs                \* how often the operation under study has run

vars == <<pc, note, depth, dry_run, original_content, headings, toc,
          new_content, fetched, update_calls, event, result, exit_code,
          text, anchor,
                   toc_range, runs>>

(***************************************************************************)
(* Bounds of the model.                                                    *)
(***************************************************************************)
MaxLines == 3       \* lines of an input document
MaxHeadings == 2    \* entries of an arbitrary heading sequence
MaxTextLen == 4     \* characters of a heading text given to generate_anchor
MaxRuns == 2        \* successive runs of the pipeline on one document

(***************************************************************************)
(* Program constants.                                                      *)
(***************************************************************************)
None == -1                  \* Python's None where an int is optional
MaxHashes == 6              \* #{1,6} in the heading pattern
MaxDepth == 6               \* --depth choices=range(1, 7)
MaxEndHashes == 2           \* #{1,2} in the end-of-TOC pattern

(***************************************************************************)
(* Characters and str methods.                                             *)
(***************************************************************************)
NL == "\n"
MOKU == "U+76EE"
JI == "U+6B21"
BACKQUOTE == "U+0060"

\* str.isspace / the regex class \s
IsSpace(c) == c \in {" ", "\t"}

\* the regex class \w (Unicode aware): letters, digits, underscore
IsWord(c) == c \in {"a", "b", "c", "e", "f", "l", "n", "o", "s", "t", "x",
                    "A", "B", "C", "O", "T", "1", "_", MOKU, JI}

\* str.lower, one character
LowerChar(c) ==
    CASE c = "A" -> "a" [] c = "B" -> "b" [] c = "C" -> "c"
      [] c = "O" -> "o" [] c = "T" -> "t" [] OTHER -> c

RECURSIVE lstrip(_)
lstrip(s) ==
    IF s # <<>> /\ IsSpace(Head(s)) THEN lstrip(Tail(s)) ELSE s

RECURSIVE rstrip(_)
rstrip(s) ==
    IF s # <<>> /\ IsSpace(s[Len(s)]) THEN rstrip(SubSeq(s, 1, Len(s) - 1))
    ELSE s

\* str.strip()
strip(s) == lstrip(rstrip(s))

\* str.startswith(p)
startswith(s, p) == Len(s) >= Len(p) /\ SubSeq(s, 1, Len(p)) = p

\* str.split('\n'): never empty, ''.split('\n') = ['']
RECURSIVE split(_)
split(s) ==
    IF \A i \in 1..Len(s) : s[i] # NL THEN <<s>>
    ELSE LET n == CHOOSE i \in 1..Len(s) :
                    s[i] = NL /\ \A k \in 1..(i - 1) : s[k] # NL
         IN  <<SubSeq(s, 1, n - 1)>> \o split(SubSeq(s, n + 1, Len(s)))

\* '\n'.join(lines)
RECURSIVE join(_)
join(lines) ==
    IF lines = <<>> THEN <<>>
    ELSE IF Len(lines) = 1 THEN lines[1]
    ELSE lines[1] \o <<NL>> \o join(Tail(lines))

\* lines[a:b] of a Python list, 0-based, b exclusive
Slice(lines, a, b) == SubSeq(lines, a + 1, b)

(***************************************************************************)
(* generate_anchor                                                         *)
(***************************************************************************)
RECURSIVE RemoveChars(_, _)
\* re.sub of a one-character class by '': drops the characters of `drop`
RemoveChars(s, drop) ==
    IF s = <<>> THEN <<>>
    ELSE IF Head(s) \in drop THEN RemoveChars(Tail(s), drop)
    ELSE <<Head(s)>> \o RemoveChars(Tail(s), drop)

RECURSIVE lower(_)
lower(s) == IF s = <<>> THEN <<>> ELSE <<LowerChar(Head(s))>> \o lower(Tail(s))

RECURSIVE RemoveNonSlug(_)
\* re.sub(r'[^\w\s-]', '', s)
RemoveNonSlug(s) ==
    IF s = <<>> THEN <<>>
    ELSE IF IsWord(Head(s)) \/ IsSpace(Head(s)) \/ Head(s) = "-"
         THEN <<Head(s)>> \o RemoveNonSlug(Tail(s))
         ELSE RemoveNonSlug(Tail(s))

IsSep(c) == IsSpace(c) \/ c = "_" \/ c = "-"

RECURSIVE CollapseSeps(_)
\* re.sub(r'[\s_-]+', '-', s): every maximal run becomes one hyphen
CollapseSeps(s) ==
    IF s = <<>> THEN <<>>
    ELSE IF IsSep(Head(s))
         THEN IF Len(s) > 1 /\ IsSep(s[2]) THEN CollapseSeps(Tail(s))
              ELSE <<"-">> \o CollapseSeps(Tail(s))
         ELSE <<Head(s)>> \o CollapseSeps(Tail(s))

\* an anchor whose hyphens are not trimmed
KeepHyphens(s) == s

RECURSIVE StripHyphens(_)
\* str.strip('-')
StripHyphens(s) ==
    IF s # <<>> /\ Head(s) = "-" THEN StripHyphens(Tail(s))
    ELSE IF s # <<>> /\ s[Len(s)] = "-"
         THEN StripHyphens(SubSeq(s, 1, Len(s) - 1))
         ELSE s

generate_anchor(t) ==
    LET t1 == RemoveChars(t, {"*", "_", BACKQUOTE})
        a1 == RemoveNonSlug(lower(t1))
        a2 == CollapseSeps(a1)
    IN  StripHyphens(a2)

(***************************************************************************)
(* extract_headings                                                        *)
(***************************************************************************)
Min(S) == CHOOSE x \in S : \A y \in S : x <= y
Max(S) == CHOOSE x \in S : \A y \in S : x >= y

\* re.match(r'^(#{1,6})\s+(.+)$', line): the ways to cut the line into
\* k hashes, m whitespace characters and a non-empty rest without newline
HeadingSplits(line) ==
    {km \in (1..MaxHashes) \X (1..Len(line)) :
        /\ km[1] + km[2] < Len(line)
        /\ \A i \in 1..km[1] : line[i] = "#"
        /\ \A i \in (km[1] + 1)..(km[1] + km[2]) : IsSpace(line[i])
        /\ \A i \in (km[1] + km[2] + 1)..Len(line) : line[i] # NL}

\* the cut the greedy quantifiers take: the most hashes, then the most
\* whitespace
HeadingCut(line) ==
    LET S == HeadingSplits(line)
        k == Max({km[1] : km \in S})
        m == Max({km[2] : km \in {x \in S : x[1] = k}})
    IN  <<k, m>>

heading_match(line) == HeadingSplits(line) # {}

\* heading_match.group(1)
Group1(line) == SubSeq(line, 1, HeadingCut(line)[1])

\* heading_match.group(2)
Group2(line) ==
    SubSeq(line, HeadingCut(line)[1] + HeadingCut(line)[2] + 1, Len(line))

\* an off-by-one depth test
DepthOkStrict(level, max_depth) == level < max_depth

\* the condition under which extract_headings keeps a matched heading
DepthOk(level, max_depth) == level <= max_depth

RECURSIVE ExtractFrom(_, _, _)
\* the loop body of extract_headings for lines line_num.. (1-based)
ExtractFrom(lines, line_num, max_depth) ==
    IF line_num > Len(lines) THEN <<>>
    ELSE LET line == strip(lines[line_num])
             rest == ExtractFrom(lines, line_num + 1, max_depth)
         IN  IF heading_match(line)
                /\ DepthOk(Len(Group1(line)), max_depth)
             THEN <<[level  |-> Len(Group1(line)),
                     text   |-> strip(Group2(line)),
                     anchor |-> generate_anchor(strip(Group2(line))),
                     line   |-> line_num]>> \o rest
             ELSE rest

extract_headings(content, max_depth) ==
    ExtractFrom(split(content), 1, max_depth)

(***************************************************************************)
(* generate_toc                                                            *)
(***************************************************************************)
TocHeaderJa == <<"#", "#", " ", MOKU, JI>>
TocHeaderEn == <<"#", "#", " ", "T", "a", "b", "l", "e", " ", "o", "f", " ",
                 "C", "o", "n", "t", "e", "n", "t", "s">>
TocHeaderShort == <<"#", "#", " ", "T", "O", "C">>

RECURSIVE Indent(_)
\* "  " * n
Indent(n) == IF n <= 0 THEN <<>> ELSE <<" ", " ">> \o Indent(n - 1)

\* f"{indent}- [{text}](#{anchor})"
TocEntry(h) ==
    Indent(h.level - 1) \o <<"-", " ", "[">> \o h.text
        \o <<"]", "(", "#">> \o h.anchor \o <<")">>

RECURSIVE TocEntries(_)
TocEntries(hs) ==
    IF hs = <<>> THEN <<>> ELSE <<TocEntry(Head(hs))>> \o TocEntries(Tail(hs))

generate_toc(hs) ==
    IF hs = <<>> THEN <<>>
    ELSE join(<<TocHeaderJa, <<>>>> \o TocEntries(hs) \o <<<<>>>>)

(***************************************************************************)
(* find_existing_toc                                                       *)
(***************************************************************************)
TocHeaders == {TocHeaderJa, TocHeaderEn, TocHeaderShort}

\* re.match(r'^#{1,2}\s+', next_line)
EndHeadingMatch(next_line) ==
    \E k \in 1..MaxEndHashes :
        /\ Len(next_line) > k
        /\ \A i \in 1..k : next_line[i] = "#"
        /\ IsSpace(next_line[k + 1])

\* the first break condition of the inner loop
EndsAtHeading(next_line) ==
    EndHeadingMatch(next_line) /\ ~startswith(next_line, <<"#", "#", "#">>)

\* the second break condition of the inner loop (i: header, j: this line)
EndsAtContent(next_line, i, j) ==
    /\ j > i + 1
    /\ next_line # <<>>
    /\ ~startswith(next_line, <<"-">>)
    /\ ~startswith(next_line, <<" ", " ", "-">>)

\* for k in range(j - 1, i, -1): the last non-blank line in i+1 .. j-1
LookBack(lines, i, j) ==
    LET ks == {k \in (i + 1)..(j - 1) : strip(lines[k + 1]) # <<>>}
    IN  IF ks = {} THEN None ELSE Max(ks) + 1

\* a locator without the end-of-section fallback
NoEndOfSection(lines, i) == None

\* "If no end found": the last non-blank line after the header
EndOfSection(lines, i) ==
    LET js == {j \in (i + 1)..(Len(lines) - 1) : strip(lines[j + 1]) # <<>>}
    IN  IF js = {} THEN None ELSE Max(js) + 1

find_existing_toc(content) ==
    LET lines == split(content)
        hdrs  == {i \in 0..(Len(lines) - 1) :
                    strip(lines[i + 1]) \in TocHeaders}
    IN  IF hdrs = {} THEN [toc_start |-> None, toc_end |-> None]
        ELSE
          LET i     == Min(hdrs)
              stops == {j \in (i + 1)..(Len(lines) - 1) :
                          \/ EndsAtHeading(strip(lines[j + 1]))
                          \/ EndsAtContent(strip(lines[j + 1]), i, j)}
              found == IF stops = {} THEN None
                       ELSE IF EndsAtHeading(strip(lines[Min(stops) + 1]))
                            THEN Min(stops)
                            ELSE LookBack(lines, i, Min(stops))
          IN  [toc_start |-> i,
               toc_end   |-> IF found = None THEN EndOfSection(lines, i)
                             ELSE found]

(***************************************************************************)
(* insert_or_update_toc                                                    *)
(***************************************************************************)
\* "Skip title if present" and the empty lines after it
InsertPos(lines) ==
    IF lines # <<>> /\ startswith(lines[1], <<"#", " ">>)
    THEN LET ps == {p \in 1..(Len(lines) - 1) : strip(lines[p + 1]) # <<>>}
         IN  IF ps = {} THEN Len(lines) ELSE Min(ps)
    ELSE 0

insert_or_update_toc(content, t) ==
    LET lines == split(content)
        r     == find_existing_toc(content)
    IN  IF r.toc_start # None /\ r.toc_end # None
        THEN join(Slice(lines, 0, r.toc_start) \o split(t)
                    \o Slice(lines, r.toc_end, Len(lines)))
        ELSE join(Slice(lines, 0, InsertPos(lines)) \o <<<<>>>> \o split(t)
                    \o Slice(lines, InsertPos(lines), Len(lines)))

(***************************************************************************)
(* Input sets.  A document is '\n'.join of 1..MaxLines lines of a pool;    *)
(* content.split('\n') of any str has at least one line.                   *)
(***************************************************************************)
RECURSIVE LineSeqs(_, _)
\* the sequences of 1..n lines of the pool
LineSeqs(pool, n) ==
    IF n <= 0 THEN {}
    ELSE IF n = 1 THEN {<<l>> : l \in pool}
    ELSE LineSeqs(pool, n - 1)
           \cup {Append(ls, l) : ls \in LineSeqs(pool, n - 1), l \in pool}

DocsOver(pool, n) == {join(ls) : ls \in LineSeqs(pool, n)}

LineBlank == <<>>
LineTitle == <<"#", " ", "T">>
LineH2 == <<"#", "#", " ", "A">>
LineH3 == <<"#", "#", "#", " ", "B">>
LineItem == <<"-", " ", "x">>
LineText == <<"t", "e", "x", "t">>

\* the notes on the server
NotePool == {LineBlank, LineTitle, LineH2, LineH3, TocHeaderShort, LineText}
Notes == DocsOver(NotePool, MaxLines)

NoRange == [toc_start |-> None, toc_end |-> None]
NoResult == [success |-> FALSE, message |-> "none"]

(***************************************************************************)
(* main and process_note: one invocation of the command.                   *)
(***************************************************************************)
Init ==
    /\ pc = "main"
    /\ note \in Notes
    /\ depth = None
    /\ dry_run = FALSE
    /\ original_content = <<>>
    /\ headings = <<>>
    /\ toc = <<>>
    /\ new_content = <<>>
    /\ fetched = FALSE
    /\ update_calls = <<>>
    /\ event = "none"
    /\ result = NoResult
    /\ exit_code = None
    /\ text = <<>>
    /\ anchor = <<>>
    /\ toc_range = NoRange
    /\ runs = 0

\* the except clause of main: print the error, sys.exit(1)
ExceptionExit == 1

\* a main that exits 0 whatever process_note returned
ExitStatusIgnoringResult(r) == 0

\* main: sys.exit(0) if result['success'], else sys.exit(1)
ExitStatus(r) == IF r.success THEN 0 ELSE ExceptionExit

\* an exception leaves process_note (or the constructor) and reaches main's
\* except clause
Raise(what) ==
    /\ event' = what
    /\ exit_code' = ExceptionExit
    /\ pc' = "exited"

\* parser.parse_args() accepts the command line
ParseArgs ==
    /\ pc = "main"
    /\ \E d \in 1..MaxDepth, dr \in BOOLEAN : depth' = d /\ dry_run' = dr
    /\ pc' = "init"
    /\ UNCHANGED <<note, original_content, headings, toc, new_content, fetched,
                   update_calls, event, result, exit_code, text, anchor,
                   toc_range, runs>>

\* parser.parse_args() rejects the command line: argparse prints the usage
\* and exits with status 2
ParseArgsError ==
    /\ pc = "main"
    /\ event' = "usage"
    /\ exit_code' = 2
    /\ pc' = "exited"
    /\ UNCHANGED <<note, depth, dry_run, original_content, headings, toc,
                   new_content, fetched, update_calls, result, text, anchor,
                   toc_range, runs>>

\* KibelaTOCGenerator(): both environment variables are set
Construct ==
    /\ pc = "init"
    /\ pc' = "process_note"
    /\ UNCHANGED <<note, depth, dry_run, original_content, headings, toc,
                   new_content, fetched, update_calls, event, result,
                   exit_code, text, anchor,
                   toc_range, runs>>

\* KibelaTOCGenerator(): KIBELA_TOKEN or KIBELA_TEAM is missing: ValueError
ConstructFails ==
    /\ pc = "init"
    /\ Raise("missing_credentials")
    /\ UNCHANGED <<note, depth, dry_run, original_content, headings, toc,
                   new_content, fetched, update_calls, result, text, anchor,
                   toc_range, runs>>

\* extract_note_id_from_url returns a note id
ExtractNoteId ==
    /\ pc = "process_note"
    /\ pc' = "get_note_content"
    /\ UNCHANGED <<note, depth, dry_run, original_content, headings, toc,
                   new_content, fetched, update_calls, event, result,
                   exit_code, text, anchor,
                   toc_range, runs>>

\* extract_note_id_from_url raises ValueError
ExtractNoteIdFails ==
    /\ pc = "process_note"
    /\ Raise("malformed_url")
    /\ UNCHANGED <<note, depth, dry_run, original_content, headings, toc,
                   new_content, fetched, update_calls, result, text, anchor,
                   toc_range, runs>>

\* get_note_content returns the note; original_content is its content
GetNoteContent ==
    /\ pc = "get_note_content"
    /\ original_content' = note
    /\ fetched' = TRUE
    /\ pc' = "extract_headings"
    /\ UNCHANGED <<note, depth, dry_run, headings, toc, new_content,
                   update_calls, event, result, exit_code, text, anchor,
                   toc_range, runs>>

\* get_note_content raises: status not 200, GraphQL errors, note not found,
\* request exception
GetNoteContentFails ==
    /\ pc = "get_note_content"
    /\ Raise("fetch_failed")
    /\ UNCHANGED <<note, depth, dry_run, original_content, headings, toc,
                   new_content, fetched, update_calls, result, text, anchor,
                   toc_range, runs>>

\* get_note_content returns a note whose content is null: len(None) raises
\* TypeError in process_note
GetNoteContentUnusable ==
    /\ pc = "get_note_content"
    /\ fetched' = TRUE
    /\ Raise("unusable_fetch")
    /\ UNCHANGED <<note, depth, dry_run, original_content, headings, toc,
                   new_content, update_calls, result, text, anchor,
                   toc_range, runs>>

\* headings = self.extract_headings(original_content, depth)
ExtractHeadings ==
    /\ pc = "extract_headings"
    /\ headings' = extract_headings(original_content, depth)
    /\ pc' = "headings_extracted"
    /\ UNCHANGED <<note, depth, dry_run, original_content, toc, new_content,
                   fetched, update_calls, event, result, exit_code, text,
                   anchor,
                   toc_range, runs>>

\* if not headings: return 'No headings found'
NoHeadings ==
    /\ pc = "headings_extracted"
    /\ headings = <<>>
    /\ result' = [success |-> TRUE, message |-> "No headings found"]
    /\ event' = "no_headings"
    /\ pc' = "returned"
    /\ UNCHANGED <<note, depth, dry_run, original_content, headings, toc,
                   new_content, fetched, update_calls, exit_code, text,
                   anchor,
                   toc_range, runs>>

\* toc = self.generate_toc(headings)
GenerateToc ==
    /\ pc = "headings_extracted"
    /\ headings # <<>>
    /\ toc' = generate_toc(headings)
    /\ pc' = "toc_generated"
    /\ UNCHANGED <<note, depth, dry_run, original_content, headings,
                   new_content, fetched, update_calls, event, result,
                   exit_code, text, anchor,
                   toc_range, runs>>

\* new_content = self.insert_or_update_toc(original_content, toc)
InsertOrUpdateToc ==
    /\ pc = "toc_generated"
    /\ new_content' = insert_or_update_toc(original_content, toc)
    /\ pc' = "spliced"
    /\ UNCHANGED <<note, depth, dry_run, original_content, headings, toc,
                   fetched, update_calls, event, result, exit_code, text,
                   anchor,
                   toc_range, runs>>

\* a process_note that does not test dry_run before the update
DryRunNeverReturns == FALSE

\* if dry_run:
DryRunReturns == dry_run

\* the dry-run branch: preview, return 'Dry run completed'
DryRun ==
    /\ pc = "spliced"
    /\ DryRunReturns
    /\ result' = [success |-> TRUE, message |-> "Dry run completed"]
    /\ event' = "dry_run"
    /\ pc' = "returned"
    /\ UNCHANGED <<note, depth, dry_run, original_content, headings, toc,
                   new_content, fetched, update_calls, exit_code, text,
                   anchor,
                   toc_range, runs>>

\* self.update_note_content(internal_id, new_content, original_content)
UpdateCall == [base |-> original_content, new |-> new_content]

\* update_note_content returns: the server took the new content
UpdateNote ==
    /\ pc = "spliced"
    /\ ~DryRunReturns
    /\ update_calls' = Append(update_calls, UpdateCall)
    /\ note' = UpdateCall.new
    /\ result' = [success |-> TRUE, message |-> "Note updated successfully"]
    /\ event' = "updated"
    /\ pc' = "returned"
    /\ UNCHANGED <<depth, dry_run, original_content, headings, toc,
                   new_content, fetched, exit_code, text, anchor,
                   toc_range, runs>>

\* update_note_content raises (rejected, status not 200, request exception):
\* process_note catches it and returns success False
UpdateNoteFails ==
    /\ pc = "spliced"
    /\ ~DryRunReturns
    /\ update_calls' = Append(update_calls, UpdateCall)
    /\ result' = [success |-> FALSE, message |-> "Failed to update note"]
    /\ event' = "update_failed"
    /\ pc' = "returned"
    /\ UNCHANGED <<note, depth, dry_run, original_content, headings, toc,
                   new_content, fetched, exit_code, text, anchor,
                   toc_range, runs>>

\* main: sys.exit on process_note's result
Exit ==
    /\ pc = "returned"
    /\ exit_code' = ExitStatus(result)
    /\ pc' = "exited"
    /\ UNCHANGED <<note, depth, dry_run, original_content, headings, toc,
                   new_content, fetched, update_calls, event, result, text,
                   anchor,
                   toc_range, runs>>

Next ==
    \/ ParseArgs \/ ParseArgsError
    \/ Construct \/ ConstructFails
    \/ ExtractNoteId \/ ExtractNoteIdFails
    \/ GetNoteContent \/ GetNoteContentFails \/ GetNoteContentUnusable
    \/ ExtractHeadings \/ NoHeadings \/ GenerateToc \/ InsertOrUpdateToc
    \/ DryRun \/ UpdateNote \/ UpdateNoteFails
    \/ Exit

Spec == Init /\ [][Next]_vars

(***************************************************************************)
(* Claims about main and process_note, under Spec.                         *)
(***************************************************************************)
Successes == {"updated", "dry_run", "no_headings"}
EarlyFailures ==
    {"missing_credentials", "malformed_url", "fetch_failed", "unusable_fetch"}
Failures == EarlyFailures \cup {"update_failed"}

\* C3: update_note_content is called at most once in a run, only after
\* get_note_content has returned, only when dry_run is false and at least one
\* heading was found; its base content is the text fetched in this run and
\* its new content the spliced text.  In dry-run mode and with no heading
\* found there is no update call and the remote note keeps its content.
C3_WriteBackGuard ==
    /\ Len(update_calls) <= 1
    /\ update_calls # <<>> =>
         /\ fetched
         /\ ~dry_run
         /\ Len(headings) >= 1
         /\ update_calls[1].base = original_content
         /\ update_calls[1].new =
              insert_or_update_toc(original_content,
                  generate_toc(extract_headings(original_content, depth)))
         /\ note \in {original_content, update_calls[1].new}
    /\ (dry_run \/ headings = <<>>) =>
         /\ update_calls = <<>>
         /\ (fetched /\ event # "unusable_fetch") => note = original_content

\* C3 witness: a run that fetched a note with headings and wrote it back
C3_Witness ==
    /\ pc = "exited"
    /\ event = "updated"
    /\ Len(update_calls) = 1
    /\ note # original_content

LineHashOnly == <<"#">>
LineHashNoSpace == <<"#", "x">>
LineSevenHashes == <<"#", "#", "#", "#", "#", "#", "#", " ", "b">>
LineSixHashes == <<"#", "#", "#", "#", "#", "#", " ", "f">>
LinePadded == <<" ", "#", "#", "\t", " ", "A", "\t">>
LineHashText == <<"#", " ", "#">>

ExtractPool == {LineBlank, LineTitle, LineH2, LineH3, LineHashOnly,
                LineHashNoSpace, LineSevenHashes, LineSixHashes, LinePadded,
                LineHashText}

Idle ==
    /\ note = <<>>
    /\ dry_run = FALSE
    /\ fetched = FALSE
    /\ update_calls = <<>>
    /\ event = "none"
    /\ result = NoResult
    /\ exit_code = None

InitExtract ==
    /\ Idle
    /\ pc = "extract_headings"
    /\ original_content \in DocsOver(ExtractPool, MaxLines)
    /\ depth \in 1..MaxDepth
    /\ headings = <<>>
    /\ toc = <<>>
    /\ new_content = <<>>
    /\ text = <<>>
    /\ anchor = <<>>
    /\ toc_range = NoRange
    /\ runs = 0

NextExtract == ExtractHeadings

SpecExtract == InitExtract /\ [][NextExtract]_vars

\* the number of '#' a line begins with
RECURSIVE HashCount(_)
HashCount(t) ==
    IF t # <<>> /\ Head(t) = "#" THEN 1 + HashCount(Tail(t)) ELSE 0

\* a trimmed line is a heading line: 1 to 6 '#', then whitespace, then
\* non-empty text
IsHeadingLine(t) ==
    /\ HashCount(t) \in 1..6
    /\ Len(t) > HashCount(t)
    /\ IsSpace(t[HashCount(t) + 1])
    /\ \E i \in (HashCount(t) + 2)..Len(t) : ~IsSpace(t[i])

\* C4: extract_headings(D, d) has exactly one entry for each line of D whose
\* trimmed text is 1 to 6 '#', whitespace, non-empty text, with at most d
\* '#'; no other line has an entry; the entries are in document order, an
\* entry's level is the number of '#', and the 1-based line numbers are
\* strictly increasing.
C4_Extraction ==
    pc = "headings_extracted" =>
        LET lines == split(original_content)
            want  == {n \in 1..Len(lines) :
                        /\ IsHeadingLine(strip(lines[n]))
                        /\ HashCount(strip(lines[n])) <= depth}
        IN  /\ {headings[i].line : i \in 1..Len(headings)} = want
            /\ Len(headings) = Cardinality(want)
            /\ \A i \in 1..Len(headings) :
                 /\ headings[i].level
                      = HashCount(strip(lines[headings[i].line]))
                 /\ headings[i].level <= depth
            /\ \A i \in 1..(Len(headings) - 1) :
                 headings[i].line < headings[i + 1].line

\* C4 witness: two headings were extracted from a document that also has a
\* heading deeper than the depth and a line that is no heading
C4_Witness ==
    /\ pc = "headings_extracted"
    /\ Len(headings) = 2
    /\ Len(split(original_content)) > 2
    /\ depth < MaxDepth
    /\ \E n \in 1..Len(split(original_content)) :
         HashCount(strip(split(original_content)[n])) > depth

(***************************************************************************)
(* generate_anchor on its own, applied to a text and then to its own       *)
(* output.                                                                 *)
(***************************************************************************)
AnchorAlphabet == {"a", "b", "A", "*", "_", BACKQUOTE, " ", "-", "!"}

RECURSIVE Texts(_)
\* the texts of at most n characters
Texts(n) ==
    IF n <= 0 THEN {<<>>}
    ELSE Texts(n - 1)
           \cup {Append(t, c) : t \in Texts(n - 1), c \in AnchorAlphabet}

InitAnchor ==
    /\ Idle
    /\ pc = "generate_anchor"
    /\ text \in Texts(MaxTextLen)
    /\ anchor = <<>>
    /\ original_content = <<>>
    /\ depth = None
    /\ headings = <<>>
    /\ toc = <<>>
    /\ new_content = <<>>
    /\ toc_range = NoRange
    /\ runs = 0

\* anchor = self.generate_anchor(text)
GenerateAnchor ==
    /\ pc = "generate_anchor"
    /\ anchor' = generate_anchor(text)
    /\ runs' = runs + 1
    /\ pc' = "anchored"
    /\ UNCHANGED <<note, depth, dry_run, original_content, headings, toc,
                   new_content, fetched, update_calls, event, result,
                   exit_code, text, toc_range>>

\* the anchor is given to generate_anchor again
Reslug ==
    /\ pc = "anchored"
    /\ runs < MaxRuns
    /\ text' = anchor
    /\ pc' = "generate_anchor"
    /\ UNCHANGED <<note, depth, dry_run, original_content, headings, toc,
                   new_content, fetched, update_calls, event, result,
                   exit_code, anchor,
                   toc_range, runs>>

NextAnchor == GenerateAnchor \/ Reslug

SpecAnchor == InitAnchor /\ [][NextAnchor]_vars

\* C8: generate_anchor(generate_anchor(x)) = generate_anchor(x), and an
\* anchor has no '*', '_', backquote or whitespace, no two adjacent hyphens
\* and no hyphen at either end.
C8_SlugIdempotent ==
    pc = "anchored" =>
        /\ runs >= 2 => anchor = text
        /\ \A i \in 1..Len(anchor) :
             /\ anchor[i] \notin {"*", "_", BACKQUOTE}
             /\ ~IsSpace(anchor[i])
             /\ (i < Len(anchor) /\ anchor[i] = "-") => anchor[i + 1] # "-"
        /\ anchor # <<>> => (anchor[1] # "-" /\ anchor[Len(anchor)] # "-")

\* C8 witness: an anchor that differs from the text it came from, with a
\* hyphen inside, has been slugged again
C8_Witness ==
    /\ pc = "anchored"
    /\ runs = 2
    /\ anchor = <<"a", "-", "a">>

(***************************************************************************)
(* find_existing_toc, generate_toc and insert_or_update_toc on their own:  *)
(* every document of the pool with every heading sequence, the empty one   *)
(* included.                                                               *)
(***************************************************************************)
LineSubItem == <<" ", " ", "-", " ", "x">>

SplicePool == {LineBlank, LineTitle, LineH2, LineH3, TocHeaderShort,
               TocHeaderJa, LineItem, LineSubItem, LineText}

HeadingT == [level |-> 1, text |-> <<"T">>, anchor |-> <<"t">>, line |-> 1]
HeadingB == [level |-> 3, text |-> <<"B">>, anchor |-> <<"b">>, line |-> 2]

RECURSIVE HeadingSeqs(_)
\* the heading sequences of at most n entries
HeadingSeqs(n) ==
    IF n <= 0 THEN {<<>>}
    ELSE HeadingSeqs(n - 1)
           \cup {Append(hs, h) : hs \in HeadingSeqs(n - 1),
                                 h \in {HeadingT, HeadingB}}

InitSplice ==
    /\ Idle
    /\ pc = "find_existing_toc"
    /\ original_content \in DocsOver(SplicePool, MaxLines)
    /\ headings \in HeadingSeqs(MaxHeadings)
    /\ depth = None
    /\ toc = <<>>
    /\ new_content = <<>>
    /\ text = <<>>
    /\ anchor = <<>>
    /\ toc_range = NoRange
    /\ runs = 0

\* toc_start, toc_end = self.find_existing_toc(content)
FindExistingToc ==
    /\ pc = "find_existing_toc"
    /\ toc_range' = find_existing_toc(original_content)
    /\ pc' = "generate_toc"
    /\ UNCHANGED <<note, depth, dry_run, original_content, headings, toc,
                   new_content, fetched, update_calls, event, result,
                   exit_code, text, anchor, runs>>

\* generate_toc(headings), of any heading sequence
RenderToc ==
    /\ pc = "generate_toc"
    /\ toc' = generate_toc(headings)
    /\ pc' = "toc_generated"
    /\ UNCHANGED <<note, depth, dry_run, original_content, headings,
                   new_content, fetched, update_calls, event, result,
                   exit_code, text, anchor,
                   toc_range, runs>>

NextSplice == FindExistingToc \/ RenderToc \/ InsertOrUpdateToc

SpecSplice == InitSplice /\ [][NextSplice]_vars

\* the number of recognized TOC header lines of a document
HeaderCount(content) ==
    Cardinality({n \in 1..Len(split(content)) :
                   strip(split(content)[n]) \in TocHeaders})

\* C2: when the document has a recognized TOC header line and the TOC text is
\* not empty, insert_or_update_toc replaces the block in place: the result
\* has no more recognized header lines than the document, wherever the
\* header sits, also when it is the last non-blank line.
C2_NoDuplicateToc ==
    (pc = "spliced" /\ HeaderCount(original_content) >= 1 /\ toc # <<>>) =>
        HeaderCount(new_content) <= HeaderCount(original_content)

\* C5: splicing the TOC of a non-empty heading sequence into a document in
\* which find_existing_toc finds no header, then locating it, gives a block
\* with both bounds defined whose first line is the header generate_toc
\* writes, and the result has exactly one recognized header line.
C5_InsertThenLocate ==
    (pc = "spliced" /\ toc_range.toc_start = None /\ headings # <<>>) =>
        LET r == find_existing_toc(new_content)
        IN  /\ r.toc_start # None
            /\ r.toc_end # None
            /\ r.toc_start < r.toc_end
            /\ split(new_content)[r.toc_start + 1]
                 = <<"#", "#", " ", "U+76EE", "U+6B21">>
            /\ HeaderCount(new_content) = 1

\* C5 witness: a TOC of two entries was inserted after the title of a
\* document that had no TOC, ahead of the text that follows
C5_Witness ==
    /\ pc = "spliced"
    /\ toc_range.toc_start = None
    /\ Len(headings) = 2
    /\ split(original_content) = <<LineTitle, LineBlank, LineText>>
    /\ find_existing_toc(new_content) = [toc_start |-> 3, toc_end |-> 7]

\* C6: generate_toc of the empty heading sequence is the empty string, and
\* insert_or_update_toc with the empty TOC text returns the document as it
\* was.
C6_EmptyTocNoOp ==
    /\ (pc = "toc_generated" /\ headings = <<>>) => toc = <<>>
    /\ (pc = "spliced" /\ toc = <<>>) => new_content = original_content

\* a terminating line after the header at index start (0-based indices): a
\* level-1 or level-2 heading line, or a line beyond start + 1 that is not
\* blank and does not begin with '-'
IsTerminating(lines, start, j) ==
    LET t == strip(lines[j + 1])
    IN  \/ (HashCount(t) \in 1..2 /\ Len(t) > HashCount(t)
                /\ IsSpace(t[HashCount(t) + 1]))
        \/ (j > start + 1 /\ t # <<>> /\ Head(t) # "-")

\* one past the last non-blank line among the lines of index a .. b - 1;
\* a when there is none
PastLastNonBlank(lines, a, b) ==
    LET S == {k \in a..(b - 1) : strip(lines[k + 1]) # <<>>}
    IN  IF S = {} THEN a ELSE Max(S) + 1

\* C9: when the document has a recognized header, first at index start,
\* find_existing_toc returns a defined end with start < end <= number of
\* lines; end does not exceed the first terminating line j after start; when
\* the scan stops on a content line j, end is one past the last non-blank
\* line before j; with no terminating line end is one past the last
\* non-blank line of the document.
C9_LocatorBounds ==
    (pc # "find_existing_toc" /\ toc_range.toc_start # None) =>
        LET lines == split(original_content)
            n     == Len(lines)
            start == toc_range.toc_start
            end   == toc_range.toc_end
            terms == {j \in (start + 1)..(n - 1) :
                        IsTerminating(lines, start, j)}
        IN  /\ end # None
            /\ start < end
            /\ end <= n
            /\ terms # {} => end <= Min(terms)
            /\ (terms # {}
                  /\ HashCount(strip(lines[Min(terms) + 1])) \notin 1..2)
                 => end = PastLastNonBlank(lines, start + 1, Min(terms))
            /\ terms = {} => end = PastLastNonBlank(lines, start + 1, n)

\* the lines of a document that are not blank, no recognized header and no
\* list item
ContentLines(content) ==
    SelectSeq(split(content),
              LAMBDA l : /\ strip(l) # <<>>
                         /\ strip(l) \notin TocHeaders
                         /\ Head(strip(l)) # "-")

RECURSIVE IsSubsequence(_, _)
\* the lines of a occur in b, in the order of a
IsSubsequence(a, b) ==
    IF a = <<>> THEN TRUE
    ELSE IF b = <<>> THEN FALSE
    ELSE IF Head(a) = Head(b) THEN IsSubsequence(Tail(a), Tail(b))
    ELSE IsSubsequence(a, Tail(b))

\* C10: every line of the document that is not blank, not a recognized
\* header and not a list item is also in insert_or_update_toc's result, and
\* these lines keep their order.  (Stated for the TOC texts generate_toc
\* renders of a heading; the empty TOC text is C6's case.)
C10_ContentPreserved ==
    (pc = "spliced" /\ toc # <<>>) =>
        IsSubsequence(ContentLines(original_content), split(new_content))

(***************************************************************************)
(* The pipeline extract_headings, generate_toc, insert_or_update_toc, run  *)
(* again on its own result.                                                *)
(***************************************************************************)
PipelinePool == {LineBlank, LineTitle, LineH2, LineH3, LineItem, LineText}

InitPipeline ==
    /\ Idle
    /\ pc = "extract_headings"
    /\ original_content \in DocsOver(PipelinePool, MaxLines)
    /\ depth \in 1..MaxDepth
    /\ headings = <<>>
    /\ toc = <<>>
    /\ new_content = <<>>
    /\ text = <<>>
    /\ anchor = <<>>
    /\ toc_range = NoRange
    /\ runs = 0

\* the next run takes the result of this one as its document
RunAgain ==
    /\ pc = "spliced"
    /\ runs + 1 < MaxRuns
    /\ original_content' = new_content
    /\ runs' = runs + 1
    /\ pc' = "extract_headings"
    /\ UNCHANGED <<note, depth, dry_run, headings, toc, new_content, fetched,
                   update_calls, event, result, exit_code, text, anchor,
                   toc_range>>

NextPipeline == ExtractHeadings \/ GenerateToc \/ InsertOrUpdateToc \/ RunAgain

SpecPipeline == InitPipeline /\ [][NextPipeline]_vars

\* C1: when extract_headings finds a heading, running the pipeline again on
\* the result of a run changes nothing: the second result is the first.
C1_PipelineIdempotent ==
    (pc = "spliced" /\ runs >= 1) => new_content = original_content

====
